---- MODULE Spec2Model ----
(***************************************************************************)
(* The pagination / subscription state machines of rxdb-hooks:             *)
(*   useRxQuery (reducer, facade callbacks, result and count effects) and  *)
(*   useRxData  (reducer, facade callbacks, result effect).                *)
(*                                                                         *)
(* React is modelled by what the hooks rely on: a dispatch is reduced and  *)
(* rendered at once; useCallback keeps the previous closure while its      *)
(* dependency list is unchanged; passive effects whose dependency list     *)
(* changed run later (RunEffects), all cleanups first, and are flushed     *)
(* before React starts any other update that comes from the consumer or    *)
(* the parent.  A stream emission may arrive while effects are pending.    *)
(* An RxJS subscription delivers nothing once it is unsubscribed.          *)
(***************************************************************************)
EXTENDS Integers, Sequences, FiniteSets, TLC

\* ---------------------------------------------------------------- bounds
MaxDocs == 2
MaxSubs == 3
MaxChanges == 1
MaxPageSize == 2
\* page and limit may grow one batch past the last document
MaxPage == MaxDocs + 1
MaxLimit == MaxDocs + MaxPageSize

\* --------------------------------------------------- values of the source
\* `page: number | undefined`: a value no number of the model ever takes
undefined == 0 - 99
\* Math.ceil(n / 0): NaN for n = 0, Infinity otherwise (tags, never compared)
NaN == 0 - 98
Infinity == 0 - 97

Traditional == "Traditional"
InfiniteScroll == "InfiniteScroll"
None == "None"

\* the two hooks of the repository
Hooks == {"useRxQuery", "useRxData"}

\* query identities the hook can be handed: 0 is "not an RxQuery"
\* (isRxQuery false / no collection yet), 1 and 2 are two find() queries
Queries == {0, 1, 2}

VARIABLES
    hook,          \* which hook this instance is
    pageSize,      \* options.pageSize (0 when absent)
    startingPage,  \* options.startingPage or undefined
    sortBy,        \* options.sortBy present?
    sortOrder,     \* options.sortOrder
    json,          \* options.json
    query,         \* the query prop (useRxData: queryConstructor(collection))
    mounted,       \* the component is mounted
    state,         \* the reducer state
    callbacks,     \* the memoized closures fetchPage / fetchMore / resetList
    resultEffect,  \* last run of the result effect: deps and its subscription
    countEffect,   \* last run of the count effect: deps and its subscription
    subs,          \* every subscription ever opened, by id
    db,            \* ids of the documents stored in the collection
    changes,       \* number of data changes so far
    hist           \* the last operation: name, state before, event, emitting slot

vars == <<hook, pageSize, startingPage, sortBy, sortOrder, json, query, mounted,
          state, callbacks, resultEffect, countEffect, subs, db, changes, hist>>

config == <<hook, pageSize, startingPage, sortBy, json>>

\* ------------------------------------------------------------- documents
RxDocument(i) == [_id |-> i, rx |-> TRUE]
toJSON(doc) == [_id |-> doc._id]

RECURSIVE Ascending(_)
Ascending(S) ==
    IF S = {} THEN <<>>
    ELSE LET m == CHOOSE x \in S : \A y \in S : x <= y
         IN <<m>> \o Ascending(S \ {m})

Reverse(s) == [i \in 1..Len(s) |-> s[Len(s) + 1 - i]]

\* the documents a base query selects
Matching(q, d) == IF q = 1 THEN d ELSE {x \in d : x > 1}

isRxQuery(q) == q # 0

\* ------------------------------------------------------------ the reducers
Reset(n) == [type |-> "Reset", pageSize |-> n]
FetchMore(n) == [type |-> "FetchMore", pageSize |-> n]
FetchPage(p) == [type |-> "FetchPage", page |-> p]
CountPages(c) == [type |-> "CountPages", pageCount |-> c]
FetchSuccess(docs) == [type |-> "FetchSuccess", docs |-> docs]
QueryChanged == [type |-> "QueryChanged"]
NoEvent == [type |-> "NoEvent"]

\* `!state.limit || action.docs.length < state.limit`
exhausted(st, docs) == st.limit = 0 \/ Len(docs) < st.limit

\* the cases of useRxQuery's reducer
onResetKeepsResult(st, action) ==
    [st EXCEPT !.isFetching = TRUE, !.limit = action.pageSize]

onResetClearsExhausted(st, action) ==
    [st EXCEPT !.result = <<>>, !.isFetching = TRUE, !.isExhausted = FALSE,
               !.limit = action.pageSize]

onReset(st, action) ==
    [st EXCEPT !.result = <<>>, !.isFetching = TRUE, !.limit = action.pageSize]

onFetchMoreNotFetching(st, action) ==
    [st EXCEPT !.page = st.page + 1, !.limit = st.limit + action.pageSize]

onFetchMoreKeepsLimit(st, action) ==
    [st EXCEPT !.isFetching = TRUE, !.page = st.page + 1]

onFetchMore(st, action) ==
    [st EXCEPT !.isFetching = TRUE, !.page = st.page + 1,
               !.limit = st.limit + action.pageSize]

onFetchPage(st, action) == [st EXCEPT !.isFetching = TRUE, !.page = action.page]

onCountPagesClearsFetching(st, action) ==
    [st EXCEPT !.pageCount = action.pageCount, !.isFetching = FALSE]

onCountPages(st, action) == [st EXCEPT !.pageCount = action.pageCount]

onFetchSuccessAppends(st, action) ==
    [st EXCEPT !.result = st.result \o action.docs, !.isFetching = FALSE,
               !.isExhausted = exhausted(st, action.docs)]

onFetchSuccess(st, action) ==
    [st EXCEPT !.result = action.docs, !.isFetching = FALSE,
               !.isExhausted = exhausted(st, action.docs)]

onQueryChanged(st) == [st EXCEPT !.isFetching = TRUE]

\* useRxQuery's reducer
reducer(st, action) ==
    CASE action.type = "Reset" -> onReset(st, action)
      [] action.type = "FetchMore" -> onFetchMore(st, action)
      [] action.type = "FetchPage" -> onFetchPage(st, action)
      [] action.type = "CountPages" -> onCountPages(st, action)
      [] action.type = "FetchSuccess" -> onFetchSuccess(st, action)
      [] action.type = "QueryChanged" -> onQueryChanged(st)
      [] OTHER -> st

\* useRxData's reducer; its `exhausted` field is held in isExhausted, and the
\* fields page and pageCount, which its state does not have, never change
dataReducer(st, action) ==
    CASE action.type = "Reset" ->
            [st EXCEPT !.result = <<>>, !.isFetching = TRUE,
                       !.limit = action.pageSize]
      [] action.type = "FetchMore" ->
            [st EXCEPT !.isFetching = TRUE,
                       !.limit = st.limit + action.pageSize]
      [] action.type = "FetchSuccess" ->
            [st EXCEPT !.result = action.docs, !.isFetching = FALSE,
                       !.isExhausted = exhausted(st, action.docs)]
      [] OTHER -> st

\* useReducer's dispatch: the hook's reducer applied to the current state
dispatch(st, action) ==
    IF hook = "useRxQuery" THEN reducer(st, action) ELSE dataReducer(st, action)

\* ------------------------------------------------------------------- mode
getPaginationModeByStartingPage(ps, sp) ==
    IF sp # undefined /\ sp # 0 THEN Traditional
    ELSE IF ps = 0 THEN None
    ELSE InfiniteScroll

getPaginationMode(ps, sp) ==
    IF ps = 0 THEN None
    ELSE IF sp = undefined \/ sp = 0 THEN InfiniteScroll
    ELSE Traditional

paginationMode == getPaginationMode(pageSize, startingPage)

initialState(h, ps, sp) ==
    IF h = "useRxQuery"
    THEN [result |-> <<>>,
          page |-> IF getPaginationMode(ps, sp) = InfiniteScroll THEN 1 ELSE sp,
          limit |-> IF getPaginationMode(ps, sp) = InfiniteScroll THEN ps ELSE 0,
          isFetching |-> TRUE, isExhausted |-> FALSE, pageCount |-> 0]
    ELSE [result |-> <<>>, page |-> undefined, limit |-> ps,
          isFetching |-> TRUE, isExhausted |-> FALSE, pageCount |-> 0]

\* ------------------------------------------------- the memoized callbacks
\* useCallback(fn, deps): the previous closure unless a dependency changed
useCallback(prev, deps, closure) ==
    IF prev.deps = deps THEN prev ELSE [deps |-> deps, state |-> closure]

fetchPageDeps(st) == <<paginationMode, st.pageCount>>

fetchMoreDeps(st) ==
    IF hook = "useRxQuery"
    THEN <<st.limit, st.isFetching, st.isExhausted, pageSize>>
    ELSE <<st.limit, st.isFetching>>

resetListDeps(st) == <<pageSize, st.limit>>

\* what each closure reads of the state it was created with
fetchPageClosure(st) == [pageCount |-> st.pageCount]
fetchMoreClosure(st) ==
    [limit |-> st.limit, isFetching |-> st.isFetching,
     isExhausted |-> st.isExhausted]
resetListClosure(st) == [limit |-> st.limit]

\* one render of the hook with state st: the callbacks it returns
Render(cbs, st) ==
    [fetchPage |-> IF hook = "useRxQuery"
                   THEN useCallback(cbs.fetchPage, fetchPageDeps(st),
                                    fetchPageClosure(st))
                   ELSE cbs.fetchPage,
     fetchMore |-> useCallback(cbs.fetchMore, fetchMoreDeps(st),
                               fetchMoreClosure(st)),
     resetList |-> useCallback(cbs.resetList, resetListDeps(st),
                               resetListClosure(st))]

\* the first render: no previous closures
NoCallback == [deps |-> <<>>, state |-> [pageCount |-> 0]]
NoCallbacks ==
    [fetchPage |-> NoCallback, fetchMore |-> NoCallback, resetList |-> NoCallback]

\* -------------------------------------------------- query materialization
Unbounded(q) ==
    [base |-> q, hasSkip |-> FALSE, skip |-> 0, hasLimit |-> FALSE, limit |-> 0,
     sort |-> "none"]

withSort(qd) == IF sortBy THEN [qd EXCEPT !.sort = sortOrder] ELSE qd

materializeAlwaysLimited(st) ==
    withSort([Unbounded(query) EXCEPT !.hasLimit = TRUE, !.limit = st.limit])

\* the query the result effect subscribes to
materialize(st) ==
    IF hook = "useRxQuery"
    THEN withSort(
           IF paginationMode = Traditional
           THEN [Unbounded(query) EXCEPT !.hasSkip = TRUE,
                                         !.skip = (st.page - 1) * pageSize,
                                         !.hasLimit = TRUE, !.limit = pageSize]
           ELSE IF paginationMode = InfiniteScroll
           THEN [Unbounded(query) EXCEPT !.hasLimit = TRUE, !.limit = st.limit]
           ELSE Unbounded(query))
    ELSE withSort(
           IF st.limit # 0
           THEN [Unbounded(query) EXCEPT !.hasLimit = TRUE, !.limit = st.limit]
           ELSE Unbounded(query))

\* the query the count effect subscribes to: the query prop itself
countQueryBounded ==
    [Unbounded(query) EXCEPT !.hasLimit = TRUE, !.limit = pageSize]

countQuery == Unbounded(query)

\* ---------------------------------------------------- the data source
Drop(s, k) == SubSeq(s, k + 1, Len(s))
Take(s, k) == SubSeq(s, 1, IF k < Len(s) THEN k ELSE Len(s))
Last(s, k) == IF k >= Len(s) THEN s ELSE SubSeq(s, Len(s) - k + 1, Len(s))

Sorted(qd, d) ==
    IF qd.sort = "desc" THEN Reverse(Ascending(Matching(qd.base, d)))
    ELSE Ascending(Matching(qd.base, d))

\* a negative skip is outside what the data source specifies: it is either
\* taken as no skip or counted from the end
Skipped(qd, s) ==
    IF ~qd.hasSkip THEN {s}
    ELSE IF qd.skip >= 0 THEN {Drop(s, qd.skip)}
    ELSE {s, Last(s, 0 - qd.skip)}

Limited(qd, s) == IF qd.hasLimit THEN Take(s, qd.limit) ELSE s

\* the ids a query's stream can emit for the stored documents d
Results(qd, d) == {Limited(qd, s) : s \in Skipped(qd, Sorted(qd, d))}

\* the payload handed to the subscriber: an array of documents
Documents(ids) == [i \in 1..Len(ids) |-> RxDocument(ids[i])]

\* `json ? docs.map(doc => doc.toJSON()) : docs`
project(docs) == IF json THEN [i \in 1..Len(docs) |-> toJSON(docs[i])] ELSE docs

\* Math.ceil(n / k)
ceilDiv(n, k) ==
    IF k = 0 THEN (IF n = 0 THEN NaN ELSE Infinity)
    ELSE (n + k - 1) \div k

\* ------------------------------------------------------- subscriptions
\* query.$.subscribe(next): a new live subscription whose first emission is due
\* subscriptions are held in slots; a slot that is not live is Closed
Slots == 1..MaxSubs
Closed ==
    [role |-> "none", query |-> Unbounded(0), live |-> FALSE, pending |-> FALSE,
     fresh |-> FALSE]

FreeSlots(ss) == {i \in Slots : ~ss[i].live}
NewSlot(ss) == CHOOSE i \in FreeSlots(ss) : \A j \in FreeSlots(ss) : i <= j

subscribe(ss, role, qd) ==
    [ss EXCEPT ![NewSlot(ss)] =
        [role |-> role, query |-> qd, live |-> TRUE, pending |-> TRUE,
         fresh |-> TRUE]]

\* sub.unsubscribe(); id 0: the effect returned before subscribing
unsubscribe(ss, id) == IF id = 0 THEN ss ELSE [ss EXCEPT ![id] = Closed]

Live(role) == {i \in Slots : subs[i].live /\ subs[i].role = role}

\* --------------------------------------------------------- the effects
NeverRun == [ran |-> FALSE, deps |-> <<>>, sub |-> 0]

resultDepsWithoutLimit(st) ==
    <<query, pageSize, paginationMode, sortBy, sortOrder, st.page>>

resultDeps(st) ==
    IF hook = "useRxQuery"
    THEN <<query, pageSize, paginationMode, sortBy, sortOrder, st.limit, st.page>>
    ELSE <<query, st.limit, sortBy, sortOrder>>

countDeps(st) == <<st.page, query, pageSize>>

ResultPending == ~resultEffect.ran \/ resultEffect.deps # resultDeps(state)

CountPending ==
    hook = "useRxQuery" /\ (~countEffect.ran \/ countEffect.deps # countDeps(state))

EffectsPending == mounted /\ (ResultPending \/ CountPending)

\* the cleanup each effect returned
resultCleanupLeaks(ss, eff) == ss
countCleanupLeaks(ss, eff) == ss

resultCleanup(ss, eff) == unsubscribe(ss, eff.sub)
countCleanup(ss, eff) == unsubscribe(ss, eff.sub)

resultGuardMissing == TRUE

\* the guards at the top of the effects
resultGuard == isRxQuery(query)
countGuard(st) == st.page # undefined /\ st.page # 0 /\ isRxQuery(query)

\* the subscribers' callbacks
onDocuments(docs) == FetchSuccess(project(docs))
onCountDocuments(docs) == CountPages(ceilDiv(Len(docs), pageSize))

Hist(op, ev, src) == [op |-> op, pre |-> state, ev |-> ev, src |-> src]

\* ------------------------------------------------------------- actions
Init ==
    /\ hook \in Hooks
    /\ pageSize \in 0..MaxPageSize
    /\ startingPage \in
         IF hook = "useRxQuery" THEN {undefined, 1} ELSE {undefined}
    /\ sortBy \in BOOLEAN
    /\ sortOrder = "desc"
    /\ json = sortBy   \* the two output options, which never interact, vary together
    /\ query \in {0, 1}
    /\ mounted = TRUE
    /\ state = initialState(hook, pageSize, startingPage)
    /\ callbacks = Render(NoCallbacks, state)
    /\ resultEffect = NeverRun
    /\ countEffect = NeverRun
    /\ subs = [i \in Slots |-> Closed]
    /\ db \in {{}, 1..MaxDocs}
    /\ changes = 0
    /\ hist = [op |-> "mount", pre |-> state, ev |-> NoEvent, src |-> 0]

\* React flushes the passive effects whose dependencies changed: every
\* cleanup first, then the result effect, then the count effect
RunEffects ==
    /\ EffectsPending
    /\ LET s1 == IF ResultPending THEN resultCleanup(subs, resultEffect) ELSE subs
           s2 == IF CountPending THEN countCleanup(s1, countEffect) ELSE s1
           rOpen == ResultPending /\ resultGuard
           s3 == IF rOpen THEN subscribe(s2, "result", materialize(state)) ELSE s2
           cOpen == CountPending /\ countGuard(state)
           s4 == IF cOpen THEN subscribe(s3, "count", countQuery) ELSE s3
           changed == rOpen /\ hook = "useRxQuery"
           st1 == IF changed THEN dispatch(state, QueryChanged) ELSE state
           needed == (IF rOpen THEN 1 ELSE 0) + (IF cOpen THEN 1 ELSE 0)
       IN /\ Cardinality(FreeSlots(s2)) >= needed
          /\ subs' = s4
          /\ resultEffect' =
               IF ResultPending
               THEN [ran |-> TRUE, deps |-> resultDeps(state),
                     sub |-> IF rOpen THEN NewSlot(s2) ELSE 0]
               ELSE resultEffect
          /\ countEffect' =
               IF CountPending
               THEN [ran |-> TRUE, deps |-> countDeps(state),
                     sub |-> IF cOpen THEN NewSlot(s3) ELSE 0]
               ELSE countEffect
          /\ state' = st1
          /\ callbacks' = Render(callbacks, st1)
          /\ hist' = Hist("effects", IF changed THEN QueryChanged ELSE NoEvent, 0)
    /\ UNCHANGED <<config, sortOrder, query, mounted, db, changes>>

\* the result stream of subscription id emits
EmitResult(id) ==
    /\ subs[id].role = "result" /\ subs[id].live /\ subs[id].pending
    /\ \E ids \in Results(subs[id].query, db) :
         LET ev == onDocuments(Documents(ids))
         IN /\ state' = dispatch(state, ev)
            /\ callbacks' = Render(callbacks, dispatch(state, ev))
            /\ hist' = Hist("emitResult", ev, id)
    /\ subs' = [subs EXCEPT ![id].pending = FALSE, ![id].fresh = FALSE]
    /\ UNCHANGED <<config, sortOrder, query, mounted, resultEffect, countEffect,
                   db, changes>>

\* the count stream of subscription id emits
EmitCount(id) ==
    /\ subs[id].role = "count" /\ subs[id].live /\ subs[id].pending
    /\ \E ids \in Results(subs[id].query, db) :
         LET ev == onCountDocuments(Documents(ids))
         IN /\ state' = dispatch(state, ev)
            /\ callbacks' = Render(callbacks, dispatch(state, ev))
            /\ hist' = Hist("emitCount", ev, id)
    /\ subs' = [subs EXCEPT ![id].pending = FALSE, ![id].fresh = FALSE]
    /\ UNCHANGED <<config, sortOrder, query, mounted, resultEffect, countEffect,
                   db, changes>>

\* the body of each facade callback, run in the closure c it was created in:
\* the event it dispatches, or NoEvent when it returns early
fetchPageNoUpperBound(c, page) ==
    IF paginationMode # Traditional THEN NoEvent
    ELSE IF page < 0 THEN NoEvent
    ELSE FetchPage(page)

fetchPage(c, page) ==
    IF paginationMode # Traditional THEN NoEvent
    ELSE IF page < 0 \/ page > c.pageCount THEN NoEvent
    ELSE FetchPage(page)

fetchMore(c) ==
    IF hook = "useRxQuery"
    THEN IF paginationMode # InfiniteScroll THEN NoEvent
         ELSE IF c.isFetching \/ c.isExhausted THEN NoEvent
         ELSE FetchMore(pageSize)
    ELSE IF c.limit = 0 \/ c.isFetching \/ c.isExhausted THEN NoEvent
         ELSE FetchMore(pageSize)

resetList(c) ==
    IF hook = "useRxQuery"
    THEN IF paginationMode # InfiniteScroll THEN NoEvent
         ELSE IF c.limit <= pageSize THEN NoEvent
         ELSE Reset(pageSize)
    ELSE IF c.limit = 0 \/ c.limit <= pageSize THEN NoEvent
         ELSE Reset(pageSize)

\* a consumer call: the event, if any, is reduced and the hook renders again
Call(op, ev) ==
    /\ mounted /\ ~EffectsPending
    /\ state' = (IF ev.type = "NoEvent" THEN state ELSE dispatch(state, ev))
    /\ callbacks' = Render(callbacks, state')
    /\ hist' = Hist(op, ev, 0)
    /\ UNCHANGED <<config, sortOrder, query, mounted, resultEffect, countEffect,
                   subs, db, changes>>

\* the pages a consumer asks for: from -1 to one past the last page
Pages ==
    {p \in (0 - 1)..MaxPage :
        state.pageCount >= 0 => p <= state.pageCount + 1}

FetchPageCall(p) ==
    /\ hook = "useRxQuery"
    /\ Call("fetchPage", fetchPage(callbacks.fetchPage.state, p))

\* (limit and page are capped: nothing in the code ends their growth)
FetchMoreCall ==
    /\ state.limit + pageSize <= MaxLimit
    /\ state.page + 1 <= MaxPage
    /\ Call("fetchMore", fetchMore(callbacks.fetchMore.state))

ResetListCall ==
    /\ mounted
    /\ Call("resetList", resetList(callbacks.resetList.state))

\* the parent renders the hook with another query / another sort order
SetQuery(q) ==
    /\ mounted /\ ~EffectsPending
    /\ q # query
    /\ query' = q
    /\ hist' = Hist("setQuery", NoEvent, 0)
    /\ UNCHANGED <<config, sortOrder, mounted, state, callbacks, resultEffect,
                   countEffect, subs, db, changes>>

SetSortOrder(o) ==
    /\ mounted /\ ~EffectsPending
    /\ sortBy
    /\ o # sortOrder
    /\ sortOrder' = o
    /\ hist' = Hist("setSortOrder", NoEvent, 0)
    /\ UNCHANGED <<config, query, mounted, state, callbacks, resultEffect,
                   countEffect, subs, db, changes>>

\* the stored documents change: every live stream whose result changed emits
DataChange(d) ==
    /\ mounted
    /\ changes < MaxChanges
    /\ db' = IF d \in db THEN db \ {d} ELSE db \cup {d}
    /\ changes' = changes + 1
    /\ subs' = [i \in Slots |->
                  [subs[i] EXCEPT !.pending =
                      @ \/ (subs[i].live
                            /\ Results(subs[i].query, db') # Results(subs[i].query, db))]]
    /\ hist' = Hist("dataChange", NoEvent, 0)
    /\ UNCHANGED <<config, sortOrder, query, mounted, state, callbacks,
                   resultEffect, countEffect>>

\* the component unmounts: the cleanup of every effect runs, and the hooks
\* (effects, callbacks) of the instance are discarded
Unmount ==
    /\ mounted
    /\ mounted' = FALSE
    /\ subs' = countCleanup(resultCleanup(subs, resultEffect), countEffect)
    /\ resultEffect' = NeverRun
    /\ countEffect' = NeverRun
    /\ callbacks' = NoCallbacks
    /\ hist' = Hist("unmount", NoEvent, 0)
    /\ UNCHANGED <<config, sortOrder, query, state, db, changes>>

Next ==
    \/ RunEffects
    \/ \E id \in Slots : EmitResult(id)
    \/ \E id \in Slots : EmitCount(id)
    \/ \E p \in Pages : FetchPageCall(p)
    \/ FetchMoreCall
    \/ ResetListCall
    \/ \E q \in Queries : SetQuery(q)
    \/ \E o \in {"asc", "desc"} : SetSortOrder(o)
    \/ \E d \in 1..MaxDocs : DataChange(d)
    \/ Unmount

Spec == Init /\ [][Next]_vars

\* an infinite-scroll list over stored documents that do not change, read by
\* a consumer that calls fetchMore whenever it may: the effects are flushed
\* after every render, an open stream delivers what it has to emit, and the
\* consumer keeps calling
ScrollInit ==
    /\ Init
    /\ isRxQuery(query)
    /\ getPaginationMode(pageSize, startingPage) = InfiniteScroll

ScrollNext ==
    \/ RunEffects
    \/ \E id \in Slots : EmitResult(id)
    \/ \E id \in Slots : EmitCount(id)
    \/ FetchMoreCall

Scroll ==
    /\ ScrollInit
    /\ [][ScrollNext]_vars
    /\ WF_vars(RunEffects)
    /\ WF_vars(\E id \in Slots : EmitResult(id))
    /\ WF_vars(\E id \in Slots : EmitCount(id))
    /\ WF_vars(FetchMoreCall)

\* ------------------------------------------------------------ the claims
\* the pagination mode of the instance; useRxData has no startingPage
Mode == getPaginationMode(pageSize, IF hook = "useRxQuery" THEN startingPage ELSE undefined)

Dispatched == hist.ev.type # "NoEvent"

\* C1: at most one result subscription and at most one count subscription
\* are live at any time, and none is live once the hook is unmounted
C1_OneSubscriptionPerRole ==
    /\ Cardinality(Live("result")) <= 1
    /\ Cardinality(Live("count")) <= 1
    /\ ~mounted => Live("result") \cup Live("count") = {}

\* a resubscription: the effects ran again after results had been delivered,
\* and a result and a count subscription are live
C1_Witness ==
    /\ hist.op = "effects"
    /\ hist.pre.result # <<>>
    /\ Live("result") # {} /\ Live("count") # {}

\* C2: every FetchSuccess and CountPages that is applied comes from the
\* subscription that the latest run of its effect opened, while the hook is
\* mounted; nothing changes the state after the unmount
C2_NoEventFromReleasedSubscription ==
    [][/\ hist'.op = "emitResult" => mounted /\ hist'.src = resultEffect.sub
       /\ hist'.op = "emitCount" => mounted /\ hist'.src = countEffect.sub
       /\ ~mounted => state' = state]_vars

\* results of the successor subscription, opened for a grown limit, applied
C2_Witness ==
    /\ hist.op = "emitResult"
    /\ paginationMode = InfiniteScroll
    /\ state.limit > pageSize
    /\ ~ResultPending
    /\ hist.pre.result # <<>>

\* C3: a call of fetchMore() changes nothing when the mode is not
\* InfiniteScroll or the state is fetching or exhausted, and otherwise
\* dispatches FetchMore(pageSize)
C3_FetchMoreGuard ==
    hist.op = "fetchMore" =>
        IF Mode # InfiniteScroll \/ hist.pre.isFetching \/ hist.pre.isExhausted
        THEN state = hist.pre
        ELSE /\ hist.ev = FetchMore(pageSize)
             /\ state.limit = hist.pre.limit + pageSize
             /\ state.isFetching

\* C4: fetchPage(p) changes nothing unless the mode is Traditional and
\* 0 <= p <= pageCount, and then sets isFetching and page = p, only
C4_FetchPageGuard ==
    hook = "useRxQuery" =>
        /\ mounted => \A p \in (0 - 1)..MaxPage :
              fetchPage(callbacks.fetchPage.state, p) =
                 IF Mode = Traditional /\ p >= 0 /\ p <= state.pageCount
                 THEN FetchPage(p) ELSE NoEvent
        /\ hist.op = "fetchPage" =>
              IF Dispatched
              THEN state = [hist.pre EXCEPT !.isFetching = TRUE,
                                            !.page = hist.ev.page]
              ELSE state = hist.pre

\* an accepted fetchPage that moved to another page
C4_Witness ==
    /\ hist.op = "fetchPage" /\ Dispatched
    /\ state.page # hist.pre.page
    /\ ~hist.pre.isFetching

\* C5: resetList() changes nothing unless the mode is InfiniteScroll and
\* limit > pageSize, and then leaves result = [], limit = pageSize and
\* isFetching = true
C5_ResetListGuard ==
    /\ mounted => resetList(callbacks.resetList.state) =
          IF Mode = InfiniteScroll /\ state.limit > pageSize
          THEN Reset(pageSize) ELSE NoEvent
    /\ hist.op = "resetList" =>
          IF Dispatched
          THEN state.result = <<>> /\ state.limit = pageSize /\ state.isFetching
          ELSE state = hist.pre

\* a reset that emptied a non-empty list
C5_Witness ==
    /\ hist.op = "resetList" /\ Dispatched
    /\ hist.pre.result # <<>>
    /\ ~hist.pre.isFetching

\* C6: FetchSuccess(items) replaces result by items, clears isFetching, sets
\* isExhausted to (limit = 0 or len(items) < limit) and keeps limit, page and
\* pageCount
C6_FetchSuccess ==
    hist.ev.type = "FetchSuccess" =>
        /\ state.result = hist.ev.docs
        /\ ~state.isFetching
        /\ state.isExhausted <=>
              (hist.pre.limit = 0 \/ Len(hist.ev.docs) < hist.pre.limit)
        /\ state.limit = hist.pre.limit
        /\ state.page = hist.pre.page
        /\ state.pageCount = hist.pre.pageCount

\* a full page replaced an earlier, different result
C6_Witness ==
    /\ hist.ev.type = "FetchSuccess"
    /\ hist.pre.limit > 0
    /\ Len(hist.ev.docs) = hist.pre.limit
    /\ hist.pre.result # <<>>
    /\ hist.pre.result # hist.ev.docs

\* C7: in useRxQuery limit >= 0, and page >= 1 whenever it is defined
C7_LimitAndPageRange ==
    hook = "useRxQuery" =>
        /\ state.limit >= 0
        /\ state.page # undefined => state.page >= 1

\* C8: outside Traditional mode no count subscription is live, no CountPages
\* is dispatched and pageCount keeps its initial value
C8_CountOnlyInTraditional ==
    Mode # Traditional =>
        /\ Live("count") = {}
        /\ hist.ev.type # "CountPages"
        /\ state.pageCount = 0

\* C9: in Traditional mode, after an emission of the count stream pageCount is
\* the least c with c * pageSize >= the number of documents the base query
\* matches
C9_PageCountIsCeiling ==
    (hist.op = "emitCount" /\ paginationMode = Traditional) =>
        LET total == Cardinality(Matching(subs[hist.src].query.base, db))
        IN /\ state.pageCount * pageSize >= total
           /\ (state.pageCount - 1) * pageSize < total

\* a count of more than one page
C9_Witness ==
    /\ hist.op = "emitCount"
    /\ paginationMode = Traditional
    /\ state.pageCount >= 2

\* C10: only a step that applies FetchSuccess changes isExhausted
C10_ExhaustedOnlyByFetchSuccess ==
    hist.ev.type # "FetchSuccess" => state.isExhausted = hist.pre.isExhausted

\* a reset of an exhausted list
C10_Witness ==
    /\ hist.ev.type = "Reset"
    /\ hist.pre.isExhausted

\* the mode the configuration selects, as the specification words it
SelectedMode(ps, sp) ==
    IF ps = 0 THEN None
    ELSE IF sp = undefined THEN InfiniteScroll
    ELSE Traditional

\* C11: the mode is a total function of the configuration (page size 0 gives
\* None whatever the starting page, a positive page size gives InfiniteScroll
\* without a starting page and Traditional with one), and the mode every
\* render of a mounted instance computed is the one its configuration selects
C11_ModeIsFunctionOfConfiguration ==
    /\ \A ps \in 0..MaxPageSize : \A sp \in {undefined} \cup 1..MaxPage :
         getPaginationMode(ps, sp) = SelectedMode(ps, sp)
    /\ paginationMode = SelectedMode(pageSize, startingPage)
    /\ (mounted /\ hook = "useRxQuery") =>
         callbacks.fetchPage.deps[1] = SelectedMode(pageSize, startingPage)

\* an instance with page size 0 and a starting page, after its effects ran
C11_Witness ==
    /\ mounted
    /\ pageSize = 0 /\ startingPage = 1
    /\ hist.op = "effects"
    /\ paginationMode = None

\* C12: in None mode the limit is 0 in every state, and every live
\* subscription is on a query with neither skip nor limit
C12_NoneModeUnbounded ==
    Mode = None =>
        /\ state.limit = 0
        /\ \A i \in Slots :
             subs[i].live => ~subs[i].query.hasSkip /\ ~subs[i].query.hasLimit

\* None mode delivered every stored document
C12_Witness ==
    /\ Mode = None
    /\ hist.op = "emitResult"
    /\ subs[hist.src].live
    /\ Len(state.result) = MaxDocs

C14_SubscriptionFollowsState ==
    (hook = "useRxQuery" /\ mounted /\ isRxQuery(query) /\ ~EffectsPending) =>
        /\ Cardinality(Live("result")) = 1
        /\ \A i \in Live("result") :
             LET q == subs[i].query
             IN /\ q.base = query
                /\ paginationMode = Traditional =>
                     /\ q.hasSkip /\ q.skip = (state.page - 1) * pageSize
                     /\ q.hasLimit /\ q.limit = pageSize
                /\ paginationMode = InfiniteScroll =>
                     ~q.hasSkip /\ q.hasLimit /\ q.limit = state.limit
                /\ paginationMode = None => ~q.hasSkip /\ ~q.hasLimit
                /\ subs[i].fresh => state.isFetching

\* a list that grew and was reset: the effects replaced the subscription a
\* second time, and the new one has not emitted yet
C14_Witness ==
    /\ hook = "useRxQuery" /\ mounted /\ isRxQuery(query) /\ ~EffectsPending
    /\ paginationMode = InfiniteScroll
    /\ hist.op = "effects" /\ hist.ev = QueryChanged
    /\ state.page > 1 /\ state.limit = pageSize
    /\ \E i \in Live("result") : subs[i].fresh

\* C15: with a valid query and no further consumer calls, every state in
\* which isFetching is true is followed by one in which it is false; that is,
\* while isFetching is true something that will clear it is still due: an
\* effect flush, or an emission of the live result subscription
C15_FetchingEnds ==
    (hook = "useRxQuery" /\ mounted /\ isRxQuery(query) /\ state.isFetching) =>
        \/ EffectsPending
        \/ \E i \in Live("result") : subs[i].pending

\* the list is complete: exhausted, not fetching, every matching document
\* delivered, and fetchMore returns without dispatching
ScrollDone ==
    /\ state.isExhausted /\ ~state.isFetching
    /\ {state.result[i]._id : i \in 1..Len(state.result)} = Matching(query, db)
    /\ Len(state.result) = Cardinality(Matching(query, db))
    /\ fetchMore(callbacks.fetchMore.state) = NoEvent

\* C16: in InfiniteScroll mode over documents that do not change, a consumer
\* that calls fetchMore whenever it may eventually has a list that is
\* exhausted, not fetching and holds every matching document, and from then
\* on fetchMore changes nothing; a fetch that returned exactly limit items
\* leaves isExhausted false
C16_ScrollTerminates ==
    /\ <>[]ScrollDone
    /\ [](( /\ hist.ev.type = "FetchSuccess"
            /\ hist.pre.limit > 0
            /\ Len(hist.ev.docs) = hist.pre.limit) => ~state.isExhausted)

\* the stored documents fill the first batch exactly: the list is complete
\* only after a second, short fetch
C16_Witness ==
    /\ ScrollDone
    /\ Len(state.result) = pageSize
    /\ state.limit = 2 * pageSize

\* C17: applying CountPages(c) sets pageCount to c and changes nothing else
\* of the state, whatever was reduced before it
C17_CountPagesFrame ==
    hist.ev.type = "CountPages" =>
        /\ state.pageCount = hist.ev.pageCount
        /\ state.result = hist.pre.result
        /\ state.isFetching = hist.pre.isFetching
        /\ state.isExhausted = hist.pre.isExhausted
        /\ state.limit = hist.pre.limit
        /\ state.page = hist.pre.page

\* a count that arrives while a fetch is in flight and changes pageCount
C17_Witness ==
    /\ hist.ev.type = "CountPages"
    /\ hist.pre.isFetching
    /\ hist.pre.pageCount # state.pageCount

\* C18: in InfiniteScroll mode every FetchSuccess is applied to a state whose
\* limit is the limit of the query that produced the items, emissions of a
\* subscription the effects have not replaced yet included
C18_FetchSuccessMatchesLimit ==
    (Mode = InfiniteScroll /\ hist.op = "emitResult") =>
        /\ subs[hist.src].query.hasLimit
        /\ subs[hist.src].query.limit = hist.pre.limit

\* C19: in every state in which isFetching is false, isExhausted is true
\* exactly when the limit is 0 or the result is shorter than the limit
C19_ExhaustedWhenIdle ==
    ~state.isFetching =>
        (state.isExhausted <=> (state.limit = 0 \/ Len(state.result) < state.limit))

\* an idle list that grew past its first batch and came up short
C19_Witness ==
    /\ ~state.isFetching /\ state.isExhausted
    /\ state.limit > pageSize /\ pageSize > 0
    /\ state.result # <<>>
    /\ hist.op = "emitResult"

\* C20: in InfiniteScroll mode every state has limit = page * pageSize
C20_LimitIsPageTimesPageSize ==
    (hook = "useRxQuery" /\ paginationMode = InfiniteScroll) =>
        state.limit = state.page * pageSize
====
